---- MODULE Spec2Model ----
(***************************************************************************)
(* A model of tools/benchmark.py: a timing harness that parses its command *)
(* line, prints a header and then six times requests a garbage collection, *)
(* reads the wall clock, calls pandas.read_csv, reads the wall clock again *)
(* and prints one row.  Every source line is one action; an uncaught       *)
(* exception ends the process with exit status 1.                          *)
(*                                                                         *)
(* The options text is taken from a set of side-effect-free expressions    *)
(* (mapping literals, other literals, and text whose evaluation raises).   *)
(***************************************************************************)
EXTENDS Integers, Sequences, FiniteSets, TLC

\* Wall-clock readings are drawn from 0..MaxClock.
MaxClock == 1

\* range(6)
Repetitions == 6

Clock == 0..MaxClock

Script == "benchmark.py"
Path == "a.csv"

\* The texts given as the second positional argument.
OptionTexts == {"{}", "{'sep': ';'}", "{'bogus': 1}", "{1: 2}", "5", "[1]", "{"}

\* The values eval() produces; tag "error" stands for an exception raised
\* by the evaluation.
Value(tag, body) == [tag |-> tag, body |-> body]

EmptyDict == Value("dict", "empty")

\* eval(sys.argv[2])
Eval(text) ==
    CASE text = "{}"           -> EmptyDict
      [] text = "{'sep': ';'}" -> Value("dict", "sep")
      [] text = "{'bogus': 1}" -> Value("dict", "bogus")
      [] text = "{1: 2}"       -> Value("dict", "intkey")
      [] text = "5"            -> Value("int", "5")
      [] text = "[1]"          -> Value("list", "1")
      [] OTHER                 -> Value("error", "SyntaxError")

\* f(**p) passes p positionally and never looks at its type.
IsKeywordMappingAny(p) == TRUE

\* f(**p) requires p to be a mapping whose keys are all strings; otherwise
\* a TypeError is raised before f is called.
IsKeywordMapping(p) == p.tag = "dict" /\ p.body # "intkey"

\* The keyword options pandas.read_csv accepts.
ParserAccepts(p) == p.tag = "dict" /\ p.body \in {"empty", "sep"}

\* The states of the file at Path that the parser can find at a call: a
\* valid file may have become unreadable, a missing file stays missing.
FileStates == {"valid", "missing"}
Observable(f) == IF f = "valid" THEN {"valid", "missing"} ELSE {f}

Header == <<"package,run,elapsed">>

\* The row printed with the loop variable itself as run index.
RowZeroBased(idx, e) == <<"pandas", ",", ToString(idx), ",", ToString(e)>>

\* print("pandas", ",", i + 1, ",", elapsed, sep="")
Row(idx, e) == <<"pandas", ",", ToString(idx + 1), ",", ToString(e)>>

VARIABLES argv,      \* sys.argv
          file0,     \* the state of the file at Path when the process starts
          file,      \* the state of the file at Path as last seen
          pc,        \* the line to execute next, or "done" / "failed"
          filename,  \* <<>> while unbound, else <<value>>
          params,    \* <<>> while unbound, else <<value>>
          i,         \* <<>> while unbound, else <<value>>
          start,     \* <<>> while unbound, else <<value>>
          elapsed,   \* <<>> while unbound, else <<value>>
          out,       \* the lines written to standard output
          status,    \* <<>> while running, else <<exit status>>
          errLine,   \* <<>>, or <<line that raised the uncaught exception>>
          calls,     \* the argument lists pandas.read_csv was called with
          trace      \* the events of the run, in order

vars == <<argv, file0, file, pc, filename, params, i, start, elapsed, out,
          status, errLine, calls, trace>>

Init ==
    /\ argv \in {<<Script>>, <<Script, Path>>}
                  \cup {<<Script, Path, t>> : t \in OptionTexts}
    /\ file0 \in FileStates
    /\ file = file0
    /\ pc = "l6"
    /\ filename = <<>>
    /\ params = <<>>
    /\ i = <<>>
    /\ start = <<>>
    /\ elapsed = <<>>
    /\ out = <<>>
    /\ status = <<>>
    /\ errLine = <<>>
    /\ calls = <<>>
    /\ trace = <<>>

\* An uncaught exception raised at line n: traceback, exit status 1.
Raise(n) ==
    /\ pc' = "failed"
    /\ status' = <<1>>
    /\ errLine' = <<n>>

\* The header is printed before the arguments are read.
L6HeaderFirst ==
    /\ pc = "l6"
    /\ out' = Append(out, Header)
    /\ IF Len(argv) >= 2
         THEN /\ filename' = <<argv[2]>>
              /\ pc' = "l7"
              /\ UNCHANGED <<status, errLine>>
         ELSE /\ Raise(6)
              /\ UNCHANGED filename
    /\ UNCHANGED <<argv, file0, file, params, i, start, elapsed, calls, trace>>

\* filename = sys.argv[1]
L6 ==
    /\ pc = "l6"
    /\ IF Len(argv) >= 2
         THEN /\ filename' = <<argv[2]>>
              /\ pc' = "l7"
              /\ UNCHANGED <<status, errLine>>
         ELSE /\ Raise(6)
              /\ UNCHANGED filename
    /\ UNCHANGED <<argv, file0, file, params, i, start, elapsed, out, calls,
                   trace>>

\* if len(sys.argv) > 2:
L7 ==
    /\ pc = "l7"
    /\ pc' = IF Len(argv) > 2 THEN "l8" ELSE "l10"
    /\ UNCHANGED <<argv, file0, file, filename, params, i, start, elapsed,
                   out, status, errLine, calls, trace>>

\* The evaluated options are checked to be a mapping right away.
L8Validating ==
    /\ pc = "l8"
    /\ IF Eval(argv[3]).tag # "dict"
         THEN /\ Raise(8)
              /\ UNCHANGED params
         ELSE /\ params' = <<Eval(argv[3])>>
              /\ pc' = "l12"
              /\ UNCHANGED <<status, errLine>>
    /\ UNCHANGED <<argv, file0, file, filename, i, start, elapsed, out, calls,
                   trace>>

\* params = eval(sys.argv[2])
L8 ==
    /\ pc = "l8"
    /\ IF Eval(argv[3]).tag = "error"
         THEN /\ Raise(8)
              /\ UNCHANGED params
         ELSE /\ params' = <<Eval(argv[3])>>
              /\ pc' = "l12"
              /\ UNCHANGED <<status, errLine>>
    /\ UNCHANGED <<argv, file0, file, filename, i, start, elapsed, out, calls,
                   trace>>

\* params = {}
L10 ==
    /\ pc = "l10"
    /\ params' = <<EmptyDict>>
    /\ pc' = "l12"
    /\ UNCHANGED <<argv, file0, file, filename, i, start, elapsed, out,
                   status, errLine, calls, trace>>

\* print("package,run,elapsed")
L12 ==
    /\ pc = "l12"
    /\ out' = Append(out, Header)
    /\ trace' = Append(trace, <<"header", 0>>)
    /\ pc' = "l13"
    /\ UNCHANGED <<argv, file0, file, filename, params, i, start, elapsed,
                   status, errLine, calls>>

\* The index the range iterator yields next.
NextIndex == IF i = <<>> THEN 0 ELSE i[1] + 1

\* The repetition in progress, counted from 1.
Rep == i[1] + 1

\* The loop body starts at the timestamp; no collection is requested.
L13NoCollect ==
    /\ pc = "l13"
    /\ IF NextIndex < Repetitions
         THEN /\ i' = <<NextIndex>>
              /\ pc' = "l15"
              /\ UNCHANGED status
         ELSE /\ pc' = "done"
              /\ status' = <<0>>
              /\ UNCHANGED i
    /\ UNCHANGED <<argv, file0, file, filename, params, start, elapsed, out,
                   errLine, calls, trace>>

\* for i in range(6):   -- and, when the range is exhausted, the end of the
\* script: exit status 0.
L13 ==
    /\ pc = "l13"
    /\ IF NextIndex < Repetitions
         THEN /\ i' = <<NextIndex>>
              /\ pc' = "l14"
              /\ UNCHANGED status
         ELSE /\ pc' = "done"
              /\ status' = <<0>>
              /\ UNCHANGED i
    /\ UNCHANGED <<argv, file0, file, filename, params, start, elapsed, out,
                   errLine, calls, trace>>

\* The options are reset in every repetition.
L14ResetParams ==
    /\ pc = "l14"
    /\ trace' = Append(trace, <<"gc", Rep>>)
    /\ params' = <<EmptyDict>>
    /\ pc' = "l15"
    /\ UNCHANGED <<argv, file0, file, filename, i, start, elapsed, out,
                   status, errLine, calls>>

\* gc.collect()
L14 ==
    /\ pc = "l14"
    /\ trace' = Append(trace, <<"gc", Rep>>)
    /\ pc' = "l15"
    /\ UNCHANGED <<argv, file0, file, filename, params, i, start, elapsed,
                   out, status, errLine, calls>>

\* start = time.time()
L15 ==
    /\ pc = "l15"
    /\ \E t \in Clock : start' = <<t>>
    /\ trace' = Append(trace, <<"start", Rep>>)
    /\ pc' = "l16"
    /\ UNCHANGED <<argv, file0, file, filename, params, i, elapsed, out,
                   status, errLine, calls>>

\* A failure of the parser is swallowed and the repetition goes on.
L16Swallow ==
    /\ pc = "l16"
    /\ IF ~IsKeywordMapping(params[1])
         THEN /\ Raise(16)
              /\ UNCHANGED <<file, calls, trace>>
         ELSE /\ calls' = Append(calls, <<filename[1], params[1]>>)
              /\ trace' = Append(trace, <<"call", Rep>>)
              /\ \E cur \in Observable(file) : file' = cur
              /\ pc' = "l17"
              /\ UNCHANGED <<status, errLine>>
    /\ UNCHANGED <<argv, file0, filename, params, i, start, elapsed, out>>

\* A failing parser call is repeated until it succeeds.
L16Retry ==
    /\ pc = "l16"
    /\ IF ~IsKeywordMapping(params[1])
         THEN /\ Raise(16)
              /\ UNCHANGED <<file, calls, trace>>
         ELSE \E cur \in Observable(file) :
                 IF cur = "valid" /\ ParserAccepts(params[1])
                   THEN /\ file' = cur
                        /\ calls' = Append(calls, <<filename[1], params[1]>>)
                        /\ trace' = Append(trace, <<"call", Rep>>)
                        /\ pc' = "l17"
                        /\ UNCHANGED <<status, errLine>>
                   ELSE UNCHANGED <<file, calls, trace, pc, status, errLine>>
    /\ UNCHANGED <<argv, file0, filename, params, i, start, elapsed, out>>

\* pandas.read_csv(filename, **params)
\* The unpacking of params comes first and raises without calling the
\* parser; the parser, once called, returns or raises.
L16 ==
    /\ pc = "l16"
    /\ IF ~IsKeywordMapping(params[1])
         THEN /\ Raise(16)
              /\ UNCHANGED <<file, calls, trace>>
         ELSE /\ calls' = Append(calls, <<filename[1], params[1]>>)
              /\ trace' = Append(trace, <<"call", Rep>>)
              /\ \E cur \in Observable(file) :
                    /\ file' = cur
                    /\ IF cur = "valid" /\ ParserAccepts(params[1])
                         THEN /\ pc' = "l17"
                              /\ UNCHANGED <<status, errLine>>
                         ELSE Raise(16)
    /\ UNCHANGED <<argv, file0, filename, params, i, start, elapsed, out>>

\* elapsed = time.time() - start
L17 ==
    /\ pc = "l17"
    /\ \E t \in Clock : elapsed' = <<t - start[1]>>
    /\ trace' = Append(trace, <<"end", Rep>>)
    /\ pc' = "l18"
    /\ UNCHANGED <<argv, file0, file, filename, params, i, start, out,
                   status, errLine, calls>>

\* A measurement of zero is not reported.
L18SkipZero ==
    /\ pc = "l18"
    /\ IF elapsed[1] = 0
         THEN UNCHANGED <<out, trace>>
         ELSE /\ out' = Append(out, Row(i[1], elapsed[1]))
              /\ trace' = Append(trace, <<"row", Rep>>)
    /\ pc' = "l13"
    /\ UNCHANGED <<argv, file0, file, filename, params, i, start, elapsed,
                   status, errLine, calls>>

\* print("pandas", ",", i + 1, ",", elapsed, sep="")
L18 ==
    /\ pc = "l18"
    /\ out' = Append(out, Row(i[1], elapsed[1]))
    /\ trace' = Append(trace, <<"row", Rep>>)
    /\ pc' = "l13"
    /\ UNCHANGED <<argv, file0, file, filename, params, i, start, elapsed,
                   status, errLine, calls>>

Next ==
    \/ L6
    \/ L7
    \/ L8
    \/ L10
    \/ L12
    \/ L13
    \/ L14
    \/ L15
    \/ L16
    \/ L17
    \/ L18

Spec == Init /\ [][Next]_vars

\* The process is a single thread that keeps executing until it halts, and
\* every call it makes returns or raises.
LiveSpec == Init /\ [][Next]_vars /\ WF_vars(Next)

----------------------------------------------------------------------------
\* Vocabulary of the properties.

Halted == pc \in {"done", "failed"}

\* The options the loop is to run with, as the command line determines them.
GivenOptions == IF Len(argv) > 2 THEN Eval(argv[3]) ELSE EmptyDict

\* The second argument is present and is not a valid mapping literal.
Malformed == Len(argv) > 2 /\ GivenOptions.tag # "dict"

EvalRaises == Len(argv) > 2 /\ GivenOptions.tag = "error"

NonMappingValue == Malformed /\ ~EvalRaises

\* The decimal texts of the values in S.
Texts(S) == {ToString(e) : e \in S}

IsDataRow(line, k, S) ==
    /\ Len(line) = 5
    /\ line[1] = "pandas"
    /\ line[2] = ","
    /\ line[3] = ToString(k)
    /\ line[4] = ","
    /\ line[5] \in Texts(S)

\* out is the header followed by the rows of repetitions 1, 2, ... in order.
WellFormedOutput ==
    \A n \in 1..Len(out) :
        IF n = 1 THEN out[n] = Header
                 ELSE IsDataRow(out[n], n - 1, (0 - MaxClock)..MaxClock)

EventKinds == <<"gc", "start", "call", "end", "row">>

\* The n-th event of a complete run.
ExpectedEvent(n) ==
    IF n = 1 THEN <<"header", 0>>
             ELSE <<EventKinds[((n - 2) % 5) + 1], ((n - 2) \div 5) + 1>>

\* A line without its elapsed field.
Shape(line) == IF Len(line) = 5 THEN SubSeq(line, 1, 4) ELSE line

Structure(lines) == [n \in 1..Len(lines) |-> Shape(lines[n])]

\* The structure of the output of a complete execution, as a function of the
\* command line and of the file alone.
ExpectedStructure ==
    IF Len(argv) < 2 \/ EvalRaises
      THEN <<>>
      ELSE IF IsKeywordMapping(GivenOptions) /\ ParserAccepts(GivenOptions)
                /\ file0 = "valid"
             THEN [n \in 1..(Repetitions + 1) |->
                     IF n = 1 THEN Header
                              ELSE <<"pandas", ",", ToString(n - 1), ",">>]
             ELSE <<Header>>

\* The last call of the parser found the file unreadable or rejected the
\* options: the parser invocation of repetition Len(calls) failed.
ParserFailed ==
    /\ calls # <<>>
    /\ file = "missing" \/ ~ParserAccepts(calls[Len(calls)][2])

----------------------------------------------------------------------------
\* C1: standard output is always a prefix of the header followed by the rows
\* pandas,1 .. pandas,6 in this order (header first and once, the k-th row
\* carries run index k), and an execution whose six parser calls all return
\* ends with exactly 7 lines and exit status 0.
OutputIsPrefix ==
    /\ Len(out) <= Repetitions + 1
    /\ WellFormedOutput
    /\ pc = "done" => Len(out) = Repetitions + 1 /\ status = <<0>>
    /\ status = <<0>> => pc = "done"
    /\ (Len(calls) = Repetitions /\ ~ParserFailed /\ Halted) => pc = "done"

OutputComplete ==
    /\ pc = "done"
    /\ Len(out) = 7
    /\ out[7][3] = "6"

\* C2: in every repetition the events come in the order collection, start
\* timestamp, parser call, end timestamp, row; so the interval between the
\* two timestamps of repetition k holds the k-th parser call and nothing else.
EventOrder ==
    /\ Len(trace) <= 1 + 5 * Repetitions
    /\ \A n \in 1..Len(trace) : trace[n] = ExpectedEvent(n)

AllEventsSeen ==
    /\ pc = "done"
    /\ Len(trace) = 31
    /\ trace[30] = <<"end", 6>>

\* C3: when the parser call of repetition k fails the process ends with a
\* non-zero status, nothing of a later repetition happens and nothing is
\* retried, and the output is the header and the rows 1..k-1; a nonexistent
\* file fails in repetition 1 with no data row.  A halted process stays as
\* it is.
FailFastState ==
    /\ ParserFailed =>
         /\ pc = "failed"
         /\ status = <<1>>
         /\ errLine = <<16>>
         /\ i = <<Len(calls) - 1>>
         /\ Len(trace) = 5 * Len(calls) - 1
         /\ trace[Len(trace)] = <<"call", Len(calls)>>
         /\ Len(out) = Len(calls)
         /\ WellFormedOutput
    /\ (file0 = "missing" /\ calls # <<>>) =>
         /\ Len(calls) = 1
         /\ out = <<Header>>
         /\ pc = "failed"

FailFast == [](FailFastState) /\ [][pc = "failed" => vars' = vars]_vars

FailedInThirdRepetition ==
    /\ pc = "failed"
    /\ ParserFailed
    /\ Len(calls) = 3
    /\ Len(out) = 3

\* C4: with a malformed options argument (its evaluation raises, or it
\* evaluates to something that is not a mapping) the parser is never called
\* and no data row is printed; the run never gets past the parser call.
MalformedNeverParses ==
    Malformed =>
        /\ calls = <<>>
        /\ Len(out) <= 1
        /\ \A n \in 1..Len(out) : out[n] = Header
        /\ pc \notin {"l17", "l18", "done"}
        /\ status # <<0>>

MalformedRejectedAtCall ==
    /\ NonMappingValue
    /\ pc = "failed"
    /\ status = <<1>>
    /\ calls = <<>>

\* C5 as stated: every malformed options argument makes the process fail at
\* the evaluation step, before the header is written and the loop entered.
MalformedFailsAtEval ==
    Malformed =>
        /\ pc \in {"l6", "l7", "l8", "failed"}
        /\ pc = "failed" => errLine = <<8>> /\ out = <<>> /\ i = <<>>

\* C5 as amended: a text whose evaluation raises fails at the evaluation
\* step with nothing written; a text that evaluates to a non-mapping value
\* is accepted by the evaluation and fails at the keyword unpacking of the
\* first repetition, after the header, before any parser call or data row.
MalformedFailsWhereDetected ==
    /\ EvalRaises =>
         /\ pc \in {"l6", "l7", "l8", "failed"}
         /\ pc = "failed" => errLine = <<8>> /\ out = <<>> /\ i = <<>>
    /\ NonMappingValue =>
         /\ pc \notin {"l10", "l17", "l18", "done"}
         /\ pc \in {"l12", "l13", "l14", "l15", "l16"} => params = <<GivenOptions>>
         /\ pc = "failed" =>
              /\ errLine = <<16>>
              /\ out = <<Header>>
              /\ i = <<0>>
              /\ calls = <<>>
              /\ trace = <<<<"header", 0>>, <<"gc", 1>>, <<"start", 1>>>>

NonMappingFailsInLoop ==
    /\ NonMappingValue
    /\ pc = "failed"
    /\ errLine = <<16>>
    /\ out = <<Header>>

\* C6: every elapsed value computed, and every elapsed value printed, is
\* non-negative.
ElapsedNonNegative ==
    /\ elapsed # <<>> => elapsed[1] >= 0
    /\ \A n \in 2..Len(out) : out[n][5] \in Texts(0..MaxClock)

\* C7: the file path and the options are set once at startup and never
\* change; the parser is called once per repetition, every time with the
\* path and the options of the command line.
ParametersFixedState ==
    /\ filename # <<>> => filename = <<argv[2]>>
    /\ params # <<>> => params = <<GivenOptions>>
    /\ pc \in {"l12", "l13", "l14", "l15", "l16", "l17", "l18", "done"} =>
         filename # <<>> /\ params # <<>>
    /\ Len(calls) <= Repetitions
    /\ \A n \in 1..Len(calls) :
         calls[n] = calls[1] /\ calls[n] = <<argv[2], GivenOptions>>
    /\ pc \in {"l14", "l15", "l16"} => Len(calls) = i[1]
    /\ pc \in {"l17", "l18"} => Len(calls) = i[1] + 1
    /\ pc = "done" => Len(calls) = Repetitions

ParametersFixed ==
    /\ [](ParametersFixedState)
    /\ [][/\ argv' = argv
          /\ filename # <<>> => filename' = filename
          /\ params # <<>> => params' = params]_vars

SixCallsWithOptions ==
    /\ Len(calls) = 6
    /\ params = <<Value("dict", "sep")>>
    /\ calls[6] = <<Path, Value("dict", "sep")>>

\* C8: the number of output lines and everything on them but the elapsed
\* field are a function of the command line and the file: any two complete
\* executions on the same unchanged file with the same options print the
\* same structure, whatever the clock reads.
StructureDetermined ==
    (Halted /\ file = file0) => Structure(out) = ExpectedStructure

SameStructureOtherTimings ==
    /\ pc = "done"
    /\ file = file0
    /\ out[2][5] # out[3][5]

\* C9: every execution halts, normally after six repetitions or in failure
\* at the first error; the loop counter only grows, stays below the
\* repetition count, and the loop body is never entered twice with the same
\* counter.
Termination ==
    /\ <>Halted
    /\ [](i # <<>> => i[1] \in 0..(Repetitions - 1))
    /\ [](pc = "done" => i = <<Repetitions - 1>> /\ errLine = <<>>)
    /\ [](pc = "failed" => errLine # <<>> /\ status = <<1>>)
    /\ [][i # <<>> => i' # <<>> /\ i'[1] >= i[1]]_vars
    /\ [][(pc # "l14" /\ pc' = "l14") => i' # i]_vars

RanSixRepetitions ==
    /\ pc = "done"
    /\ i = <<5>>
    /\ status = <<0>>

\* C10: the arguments are read before anything is printed: a missing
\* positional argument, or an options text whose evaluation raises, ends the
\* process with empty standard output, no collection and no parser call;
\* the missing argument is detected before the options are looked at.
StartupFailuresSilent ==
    /\ pc \in {"l6", "l7", "l8", "l10", "l12"} =>
         out = <<>> /\ trace = <<>> /\ calls = <<>>
    /\ (pc = "failed" /\ errLine \in {<<6>>, <<8>>}) =>
         out = <<>> /\ trace = <<>> /\ calls = <<>> /\ status = <<1>>
    /\ Len(argv) < 2 =>
         /\ pc \in {"l6", "failed"}
         /\ params = <<>>
         /\ pc = "failed" => errLine = <<6>>
    /\ (Len(argv) >= 2 /\ EvalRaises) =>
         /\ pc \in {"l6", "l7", "l8", "failed"}
         /\ pc = "failed" => errLine = <<8>>

EvalFailedSilently ==
    /\ pc = "failed"
    /\ errLine = <<8>>
    /\ EvalRaises
    /\ out = <<>>

====
